---------------------------- MODULE Spec2Model ----------------------------
(***************************************************************************)
(* Model of the recognition worker of the face-recognition game:           *)
(*   - WorkerProcess.run / get_task: the dispatch loop, the Shutdown       *)
(*     sentinel, the drain phase and the error channel                     *)
(*     (src/game/recognition/recognition.py),                              *)
(*   - RecognitionProcess.execute_task: the task-to-stage mapping,         *)
(*   - FaceDatabase: the gallery, its pickle file and the 1000-entry trim  *)
(*     (src/face_recognition_live/database.py).                            *)
(*                                                                         *)
(* The specifications share the variables:                                 *)
(*   Spec         the worker process, a producer on the task channel;      *)
(*   SpecFair     Spec with the worker process scheduled fairly;           *)
(*   SpecGallery  one FaceDatabase instance used step by step (add,        *)
(*                store as open/flush/close) next to another process that  *)
(*                constructs a FaceDatabase on the same path;              *)
(*   SpecContext  the worker started and stopped by init_recognition, the  *)
(*                body of the with block as the producer.                  *)
(***************************************************************************)
EXTENDS Integers, Sequences, FiniteSets, TLC

VARIABLES
    task_queue,     \* WorkerProcess.task_queue: tasks put and not yet got
    result_queue,   \* WorkerProcess.result_queue: every result put, in order
    error_queue,    \* WorkerProcess.error_queue: every Error put
    pc,             \* position of run(): "main", "drain", "done", "failed";
                    \* "new" before start()
    models,         \* RecognitionProcess.models: "None" or "stack"
    inits,          \* history: number of init_model_stack() calls
    faces,          \* FaceDatabase.faces, the in-memory sequence
    file,           \* the file at FaceDatabase.database_file
    clock,          \* datetime.datetime.now()
    enqueued,       \* history: every task ever put on task_queue, in order
    executed,       \* history: one record per execute_task call, in order
    discarded,      \* history: tasks got by the drain loop, in order
    store_pc,       \* SpecGallery: position of store(): "idle", "dumping", "crashed"
    persisted,      \* SpecGallery history: what the last finished store wrote
    prev_file,      \* SpecGallery history: the file when the last store began
    clean_store,    \* SpecGallery history: the last store began with nothing added since the one before
    dirty,          \* SpecGallery history: something was added since the last finished store
    batches,        \* SpecGallery history: number of add batches so far
    inserted,       \* SpecGallery history: every StoredFace ever appended, in order
    reader,         \* SpecGallery: what another process constructing FaceDatabase got
    ctx             \* SpecContext: position of init_recognition and the Shutdowns it put

vars == <<task_queue, result_queue, error_queue, pc, models, inits, faces, file,
          clock, enqueued, executed, discarded, store_pc, persisted, prev_file,
          clean_store, dirty, batches, inserted, reader, ctx>>

workerVars == <<task_queue, result_queue, error_queue, pc, models, inits,
                enqueued, executed, discarded>>

galleryHist == <<store_pc, persisted, prev_file, clean_store, dirty, batches,
                 inserted, reader>>

---------------------------------------------------------------------------
(* Bounds of the model *)

\* tasks the producer puts on the task channel over a run
MaxTasks == 3

\* add batches applied to one FaceDatabase in SpecGallery
MaxBatches == 3

\* CONFIG["display"]["num_matches_debug"]: a configuration value, any value >= 0
NumMatches == 1

(* Program constants *)

\* faces[-1000:] in FaceDatabase.store
MaxFaces == 1000

---------------------------------------------------------------------------
(* Sequences *)

Min(a, b) == IF a < b THEN a ELSE b

Abs(a) == IF a < 0 THEN -a ELSE a

\* s[:n]
Take(s, n) == SubSeq(s, 1, Min(n, Len(s)))

\* s[-n:] for n > 0
LastN(s, n) == SubSeq(s, (IF Len(s) > n THEN Len(s) - n ELSE 0) + 1, Len(s))

IsPrefix(s, t) == Len(s) <= Len(t) /\ SubSeq(t, 1, Len(s)) = s

---------------------------------------------------------------------------
(* Values *)

StoredFace(timestamp, features, image) ==
    [timestamp |-> timestamp, features |-> features, image |-> image]

NoStoredFace == StoredFace(0, 0, 0)

\* game.recognition.face.Face: the fields the stages set, 0 while unset
Face(box) ==
    [bounding_box |-> box, thumbnail |-> box, landmarks |-> 0, crop |-> 0,
     features |-> 0, matches |-> <<>>]

\* an image is modelled by what the model stack finds in it: the bounding
\* boxes, and the boxes for which find_landmarks raises
Image(boxes, bad) == [boxes |-> boxes, bad |-> bad]

NoImage == Image(<<>>, {})

\* task.recognition_result of RegisterFaces: None, or a result whose faces
\* is None or a sequence
RecResult(present, has_faces, fs) ==
    [present |-> present, has_faces |-> has_faces, faces |-> fs]

NoRecResult == RecResult(FALSE, FALSE, <<>>)

Task(kind, image, rr) == [id |-> 0, kind |-> kind, image |-> image, rr |-> rr]

\* Python's None as the value of execute_task
None == [kind |-> "None", task |-> 0, items |-> <<>>]

Result(kind, id, items) == [kind |-> kind, task |-> id, items |-> items]

Error == [kind |-> "Error"]

\* the file: absent, or a sequence of pickle tokens
Absent == [exists |-> FALSE, bytes |-> <<>>]

FileOf(bytes) == [exists |-> TRUE, bytes |-> bytes]

---------------------------------------------------------------------------
(* pickle: the file holds a token stream, PROTO, one APPEND per list item,  *)
(* STOP.  loads succeeds only on a complete stream.                         *)

Token(op, arg) == [op |-> op, arg |-> arg]

\* faulty variant of Dumps: the last item is not written
DumpsDropLast(fs) ==
    <<Token("PROTO", NoStoredFace)>>
        \o [i \in 1..(Len(fs) - 1) |-> Token("APPEND", fs[i])]
        \o <<Token("STOP", NoStoredFace)>>

\* pickle.dump(self.faces, f): the whole stream store() writes
Dumps(fs) ==
    <<Token("PROTO", NoStoredFace)>>
        \o [i \in 1..Len(fs) |-> Token("APPEND", fs[i])]
        \o <<Token("STOP", NoStoredFace)>>

\* whether pickle.loads accepts the bytes (else it raises: EOFError on an
\* empty or cut stream, UnpicklingError otherwise)
WellFormed(bytes) ==
    /\ Len(bytes) >= 2
    /\ bytes[1].op = "PROTO"
    /\ bytes[Len(bytes)].op = "STOP"
    /\ \A i \in 2..(Len(bytes) - 1) : bytes[i].op = "APPEND"

\* pickle.loads(bytes) on accepted bytes
Loads(bytes) == [i \in 1..(Len(bytes) - 2) |-> bytes[i + 1].arg]

---------------------------------------------------------------------------
(* FaceDatabase *)

\* faulty variant of Construct: a file that cannot be read gives an empty
\* gallery
ConstructSwallowing(f) ==
    IF f.exists
    THEN IF WellFormed(f.bytes)
         THEN [ok |-> TRUE, faces |-> Loads(f.bytes)]
         ELSE [ok |-> TRUE, faces |-> <<>>]
    ELSE [ok |-> TRUE, faces |-> <<>>]

\* FaceDatabase.__init__: the new instance's faces, or the exception
Construct(f) ==
    IF f.exists
    THEN IF WellFormed(f.bytes)
         THEN [ok |-> TRUE, faces |-> Loads(f.bytes)]
         ELSE [ok |-> FALSE, faces |-> <<>>]
    ELSE [ok |-> TRUE, faces |-> <<>>]

\* FaceDatabase.add at time now
Add(fs, now, features, image) == Append(fs, StoredFace(now, features, image))

\* faulty variant of KeepNewest: self.faces[:1000]
KeepOldest(fs) == Take(fs, MaxFaces)

\* self.faces[-1000:]
KeepNewest(fs) == LastN(fs, MaxFaces)

\* FaceDatabase.store run to completion: the faces and the file after it
Store(fs) == [faces |-> KeepNewest(fs), file |-> FileOf(Dumps(KeepNewest(fs)))]

\* FaceDatabase.add_all(faces): one add per face, in order, with the face's
\* features and thumbnail; clock ticks once per add
RECURSIVE AddAll(_, _, _)
AddAll(fs, now, new) ==
    IF new = <<>> THEN fs
    ELSE AddAll(Add(fs, now, new[1].features, new[1].thumbnail), now + 1, Tail(new))

\* FaceDatabase.remove_most_recent(): the k most recent entries leave
RemoveMostRecent(fs, k) ==
    [faces |-> SubSeq(fs, 1, Len(fs) - k), removed |-> LastN(fs, k)]

---------------------------------------------------------------------------
(* The model stack (game.recognition.models): deterministic in its input.   *)

\* models.find_landmarks, models.crop, one row of models.extract_features
FindLandmarks(box) == box

CropImage(landmarks) == landmarks

Embed(crop) == crop

\* similarity of an embedding and a stored face: higher is closer
Score(features, stored) == 10 - Abs(features - stored.features)

\* insert candidate c into cs, sorted by descending score, behind equal scores
RECURSIVE InsertByScore(_, _)
InsertByScore(cs, c) ==
    IF cs = <<>> THEN <<c>>
    ELSE IF cs[1].score >= c.score THEN <<cs[1]>> \o InsertByScore(Tail(cs), c)
    ELSE <<c>> \o cs

\* models.match_faces(features, gallery): every gallery entry with its
\* score, by descending score, ties in gallery order
RECURSIVE MatchFaces(_, _)
MatchFaces(features, gallery) ==
    IF gallery = <<>> THEN <<>>
    ELSE InsertByScore(
             MatchFaces(features, SubSeq(gallery, 1, Len(gallery) - 1)),
             [face |-> gallery[Len(gallery)],
              score |-> Score(features, gallery[Len(gallery)])])

---------------------------------------------------------------------------
(* RecognitionProcess: the stages *)

\* __detect_faces: one Face per bounding box, in order
DetectFaces(image) == [i \in 1..Len(image.boxes) |-> Face(image.boxes[i])]

\* _crop from face i on: landmarks then crop of each face in order; an
\* exception of find_landmarks leaves the loop and the method
RECURSIVE CropFrom(_, _, _)
CropFrom(image, fs, i) ==
    IF i > Len(fs) THEN [raised |-> FALSE, faces |-> fs]
    ELSE IF fs[i].bounding_box \in image.bad THEN [raised |-> TRUE, faces |-> fs]
    ELSE CropFrom(image,
                  [fs EXCEPT ![i].landmarks = FindLandmarks(fs[i].bounding_box),
                             ![i].crop = CropImage(FindLandmarks(fs[i].bounding_box))],
                  i + 1)

Crop(image, fs) == CropFrom(image, fs, 1)

\* _extract_features: one batch, features handed back in order
ExtractFeatures(fs) ==
    [i \in 1..Len(fs) |-> [fs[i] EXCEPT !.features = Embed(fs[i].crop)]]

\* faulty variant of FindMatches: the tail of the matcher's list is kept
FindMatchesWorst(fs, gallery) ==
    [i \in 1..Len(fs) |->
        [fs[i] EXCEPT !.matches = LastN(MatchFaces(fs[i].features, gallery), NumMatches)]]

\* _find_matches: match_faces(...)[:num_matches] per face
FindMatches(fs, gallery) ==
    [i \in 1..Len(fs) |->
        [fs[i] EXCEPT !.matches = Take(MatchFaces(fs[i].features, gallery), NumMatches)]]

---------------------------------------------------------------------------
(* RecognitionProcess.execute_task *)

\* what one call did: whether it raised, its return value, the gallery, the
\* file and the clock after it, and the stages it invoked in order
Outcome(raised, result, fs, f, now, stages) ==
    [raised |-> raised, result |-> result, faces |-> fs, file |-> f,
     clock |-> now, stages |-> stages]

\* faulty variant of HasFaces: the stages run whatever detection found
AlwaysHasFaces(fs) == TRUE

\* len(faces) > 0
HasFaces(fs) == Len(fs) > 0

\* the RecognizeFaces branch
Recognize(task, fs, f, now) ==
    LET detected == DetectFaces(task.image)
        cropped == Crop(task.image, detected)
    IN  IF HasFaces(detected)
        THEN IF cropped.raised
             THEN Outcome(TRUE, None, fs, f, now, <<"detect", "crop">>)
             ELSE Outcome(FALSE,
                          Result("RecognitionResult", task.id,
                                 FindMatches(ExtractFeatures(cropped.faces), fs)),
                          fs, f, now, <<"detect", "crop", "extract", "match">>)
        ELSE Outcome(FALSE, Result("RecognitionResult", task.id, detected),
                     fs, f, now, <<"detect">>)

\* the BackupFaceDatabase branch; io is what the file system does: "ok",
\* "open_fails" (open raises, the file is as it was) or "dump_fails" (the
\* file was opened, so truncated, and the write raises)
Backup(task, fs, f, now, io) ==
    IF io = "ok" THEN Outcome(FALSE, None, Store(fs).faces, Store(fs).file, now, <<"store">>)
    ELSE IF io = "open_fails" THEN Outcome(TRUE, None, KeepNewest(fs), f, now, <<"store">>)
    ELSE Outcome(TRUE, None, KeepNewest(fs), FileOf(<<>>), now, <<"store">>)

\* faulty variant of NothingToRegister: task.recognition_result.faces is None
\* alone, so that None falls through to the reading of its .faces
NothingToRegisterNoNoneCheck(rr) == rr.present /\ ~rr.has_faces

\* task.recognition_result is None or task.recognition_result.faces is None
NothingToRegister(rr) == ~rr.present \/ ~rr.has_faces

\* the RegisterFaces branch; past the guard, .faces of None and add_all(None)
\* raise
Register(task, fs, f, now) ==
    IF NothingToRegister(task.rr)
    THEN Outcome(FALSE, Result("RegistrationResult", task.id, <<>>), fs, f, now, <<>>)
    ELSE IF ~task.rr.present \/ ~task.rr.has_faces
         THEN Outcome(TRUE, None, fs, f, now, <<>>)
         ELSE Outcome(FALSE,
                      Result("RegistrationResult", task.id,
                             SubSeq(AddAll(fs, now, task.rr.faces), Len(fs) + 1,
                                    Len(fs) + Len(task.rr.faces))),
                      AddAll(fs, now, task.rr.faces), f,
                      now + Len(task.rr.faces), <<"add_all">>)

\* the UnregisterMostRecentFaces branch, k entries removed
Unregister(task, fs, f, now, k) ==
    Outcome(FALSE,
            Result("UnregistrationResult", task.id, RemoveMostRecent(fs, k).removed),
            RemoveMostRecent(fs, k).faces, f, now, <<"remove_most_recent">>)

\* faulty variant of ExecuteTask: a task of no known kind is passed over
ExecuteTaskIgnoringUnknown(task, fs, f, now, k, io) ==
    IF task.kind = "RecognizeFaces" THEN Recognize(task, fs, f, now)
    ELSE IF task.kind = "BackupFaceDatabase" THEN Backup(task, fs, f, now, io)
    ELSE IF task.kind = "RegisterFaces" THEN Register(task, fs, f, now)
    ELSE IF task.kind = "UnregisterMostRecentFaces" THEN Unregister(task, fs, f, now, k)
    ELSE Outcome(FALSE, None, fs, f, now, <<>>)

\* execute_task(task) after the model stack is set: the isinstance chain;
\* any other task raises NotImplementedError
ExecuteTask(task, fs, f, now, k, io) ==
    IF task.kind = "RecognizeFaces" THEN Recognize(task, fs, f, now)
    ELSE IF task.kind = "BackupFaceDatabase" THEN Backup(task, fs, f, now, io)
    ELSE IF task.kind = "RegisterFaces" THEN Register(task, fs, f, now)
    ELSE IF task.kind = "UnregisterMostRecentFaces" THEN Unregister(task, fs, f, now, k)
    ELSE Outcome(TRUE, None, fs, f, now, <<>>)

\* the choices execute_task leaves open for a task: how many entries
\* remove_most_recent takes, what the file system does in store
RemoveChoices(task, fs) ==
    IF task.kind = "UnregisterMostRecentFaces" THEN 0..Len(fs) ELSE {0}

IoChoices(task) ==
    IF task.kind = "BackupFaceDatabase" THEN {"ok", "open_fails", "dump_fails"} ELSE {"ok"}

---------------------------------------------------------------------------
(* WorkerProcess: the channels.  Each is an unbounded FIFO queue; a put is  *)
(* in the queue at once.  The result and error channels keep all that was  *)
(* put: their consumer is the caller of the worker.                        *)

\* faulty variant of Empty: a single waiting task is not seen
EmptyBelowTwo(q) == Len(q) <= 1

\* task_queue.empty()
Empty(q) == Len(q) = 0

\* faulty variant of QueueGet: the newest task leaves the queue
QueueGetNewest(q) == [task |-> q[Len(q)], rest |-> SubSeq(q, 1, Len(q) - 1)]

\* task_queue.get(): the oldest task leaves the queue
QueueGet(q) == [task |-> Head(q), rest |-> Tail(q)]

NoTask == Task("None", NoImage, NoRecResult)

\* faulty variant of GetTask: the task is read and stays in the queue
GetTaskPeek(q) ==
    IF ~Empty(q)
    THEN [available |-> TRUE, task |-> QueueGet(q).task, rest |-> q]
    ELSE [available |-> FALSE, task |-> NoTask, rest |-> q]

\* get_task(): (True, task) with the task removed, or (False, None).  The
\* worker is the only consumer, so a put between empty() and get() changes
\* neither answer and the pair is one step.
GetTask(q) ==
    IF ~Empty(q)
    THEN [available |-> TRUE, task |-> QueueGet(q).task, rest |-> QueueGet(q).rest]
    ELSE [available |-> FALSE, task |-> NoTask, rest |-> q]

\* faulty variant of IsShutdown: the sentinel is not recognised
NeverShutdown(task) == FALSE

\* isinstance(task, Shutdown)
IsShutdown(task) == task.kind = "Shutdown"

\* the result classes of game.events.results define neither __bool__ nor
\* __len__: every result object is true
ResultObjectTruthy(r) == TRUE

\* if result:
Truthy(r) == r # None /\ ResultObjectTruthy(r)

\* faulty variant of PutResult: the result goes to the head
PutResultInFront(q, r) == <<r>> \o q

\* self.result_queue.put(result)
PutResult(q, r) == Append(q, r)

\* faulty variant of PutError: nothing is put
PutNoError(q) == q

\* self.error_queue.put(Error())
PutError(q) == Append(q, Error)

\* faulty variant of EnsureModels: the stack is built at every call
EnsureModelsEveryTime(m) == [models |-> "stack", calls |-> 1]

\* if not self.models: self.models = init_model_stack()
EnsureModels(m) == [models |-> "stack", calls |-> IF m = "None" THEN 1 ELSE 0]

---------------------------------------------------------------------------
(* The tasks a producer may put *)

ProcessedFace(box) ==
    [Face(box) EXCEPT !.landmarks = FindLandmarks(box),
                      !.crop = CropImage(FindLandmarks(box)),
                      !.features = Embed(CropImage(FindLandmarks(box)))]

Images == {Image(<<>>, {}), Image(<<1, 2>>, {}), Image(<<1, 2>>, {1})}

RecResults ==
    {NoRecResult,
     RecResult(TRUE, FALSE, <<>>),
     RecResult(TRUE, TRUE, <<>>),
     RecResult(TRUE, TRUE, <<ProcessedFace(2), ProcessedFace(1)>>)}

\* "Unknown" stands for any task class execute_task has no branch for
Tasks ==
    {Task("RecognizeFaces", im, NoRecResult) : im \in Images}
        \cup {Task("RegisterFaces", NoImage, rr) : rr \in RecResults}
        \cup {Task(kd, NoImage, NoRecResult) :
                kd \in {"BackupFaceDatabase", "UnregisterMostRecentFaces",
                        "Unknown", "Shutdown"}}

\* the file a worker may find at its start: none, or a gallery an earlier
\* run stored
InitFiles == {Absent, FileOf(Dumps(<<StoredFace(0, 1, 1)>>))}

NotRead == [read |-> FALSE, ok |-> TRUE, faces |-> <<>>]

\* init_recognition: where it is, and how many Shutdowns it has put; "none"
\* when the worker was started without it
NoContext == [pc |-> "none", shutdowns |-> 0, body_puts |-> 0]

---------------------------------------------------------------------------
(* Spec: the worker process and a producer *)

Init ==
    /\ task_queue = <<>>
    /\ result_queue = <<>>
    /\ error_queue = <<>>
    /\ pc = "main"
    /\ models = "None"
    /\ inits = 0
    /\ file \in InitFiles
    /\ faces = Construct(file).faces
    /\ clock = 1
    /\ enqueued = <<>>
    /\ executed = <<>>
    /\ discarded = <<>>
    /\ store_pc = "idle"
    /\ persisted = [done |-> FALSE, faces |-> Construct(file).faces]
    /\ prev_file = Absent
    /\ clean_store = FALSE
    /\ dirty = FALSE
    /\ batches = 0
    /\ inserted = Construct(file).faces
    /\ reader = NotRead
    /\ ctx = NoContext

\* a producer: task_queue.put(task); the task's id is its place in the
\* order of the puts
Put ==
    /\ Len(enqueued) < MaxTasks
    /\ \E t \in Tasks :
          /\ task_queue' = Append(task_queue, [t EXCEPT !.id = Len(enqueued) + 1])
          /\ enqueued' = Append(enqueued, [t EXCEPT !.id = Len(enqueued) + 1])
    /\ UNCHANGED <<result_queue, error_queue, pc, models, inits, faces, file,
                   clock, executed, discarded>>
    /\ UNCHANGED <<galleryHist, ctx>>

\* run(), main loop, no task available: continue
RunContinue ==
    /\ pc = "main"
    /\ ~GetTask(task_queue).available
    /\ UNCHANGED vars

\* run(), main loop, the task is Shutdown: break to the drain loop
RunBreak ==
    /\ pc = "main"
    /\ GetTask(task_queue).available
    /\ IsShutdown(GetTask(task_queue).task)
    /\ task_queue' = GetTask(task_queue).rest
    /\ pc' = "drain"
    /\ UNCHANGED <<result_queue, error_queue, models, inits, faces, file, clock,
                   enqueued, executed, discarded>>
    /\ UNCHANGED <<galleryHist, ctx>>

\* the record of one execute_task call
Executed(task, out, m, before) ==
    [task |-> task, raised |-> out.raised, result |-> out.result,
     stages |-> out.stages, init |-> EnsureModels(m).calls = 1,
     before |-> before, after |-> out.faces]

\* run(), main loop, execute_task(task) returns: put the result if any
RunExecute ==
    /\ pc = "main"
    /\ GetTask(task_queue).available
    /\ ~IsShutdown(GetTask(task_queue).task)
    /\ \E k \in RemoveChoices(GetTask(task_queue).task, faces),
          io \in IoChoices(GetTask(task_queue).task) :
          LET task == GetTask(task_queue).task
              out == ExecuteTask(task, faces, file, clock, k, io)
          IN  /\ ~out.raised
              /\ task_queue' = GetTask(task_queue).rest
              /\ models' = EnsureModels(models).models
              /\ inits' = inits + EnsureModels(models).calls
              /\ faces' = out.faces
              /\ file' = out.file
              /\ clock' = out.clock
              /\ executed' = Append(executed, Executed(task, out, models, faces))
              /\ result_queue' = IF Truthy(out.result)
                                 THEN PutResult(result_queue, out.result)
                                 ELSE result_queue
    /\ UNCHANGED <<error_queue, pc, enqueued, discarded>>
    /\ UNCHANGED <<galleryHist, ctx>>

\* faulty variant of RunRaise: the waiting tasks are dropped before the
\* process ends
RunRaiseThenDrain ==
    /\ pc = "main"
    /\ GetTask(task_queue).available
    /\ ~IsShutdown(GetTask(task_queue).task)
    /\ \E k \in RemoveChoices(GetTask(task_queue).task, faces),
          io \in IoChoices(GetTask(task_queue).task) :
          LET task == GetTask(task_queue).task
              out == ExecuteTask(task, faces, file, clock, k, io)
          IN  /\ out.raised
              /\ task_queue' = <<>>
              /\ discarded' = discarded \o GetTask(task_queue).rest
              /\ models' = EnsureModels(models).models
              /\ inits' = inits + EnsureModels(models).calls
              /\ faces' = out.faces
              /\ file' = out.file
              /\ clock' = out.clock
              /\ executed' = Append(executed, Executed(task, out, models, faces))
              /\ error_queue' = PutError(error_queue)
    /\ pc' = "failed"
    /\ UNCHANGED <<result_queue, enqueued>>
    /\ UNCHANGED <<galleryHist, ctx>>

\* run(), main loop, execute_task(task) raises: put Error, re-raise, the
\* process ends
RunRaise ==
    /\ pc = "main"
    /\ GetTask(task_queue).available
    /\ ~IsShutdown(GetTask(task_queue).task)
    /\ \E k \in RemoveChoices(GetTask(task_queue).task, faces),
          io \in IoChoices(GetTask(task_queue).task) :
          LET task == GetTask(task_queue).task
              out == ExecuteTask(task, faces, file, clock, k, io)
          IN  /\ out.raised
              /\ task_queue' = GetTask(task_queue).rest
              /\ models' = EnsureModels(models).models
              /\ inits' = inits + EnsureModels(models).calls
              /\ faces' = out.faces
              /\ file' = out.file
              /\ clock' = out.clock
              /\ executed' = Append(executed, Executed(task, out, models, faces))
              /\ error_queue' = PutError(error_queue)
    /\ pc' = "failed"
    /\ UNCHANGED <<result_queue, enqueued, discarded>>
    /\ UNCHANGED <<galleryHist, ctx>>

\* run(), drain loop, a task is available: it is dropped
DrainDiscard ==
    /\ pc = "drain"
    /\ GetTask(task_queue).available
    /\ task_queue' = GetTask(task_queue).rest
    /\ discarded' = Append(discarded, GetTask(task_queue).task)
    /\ UNCHANGED <<result_queue, error_queue, pc, models, inits, faces, file,
                   clock, enqueued, executed>>
    /\ UNCHANGED <<galleryHist, ctx>>

\* run(), drain loop, no task available: break, run() returns
DrainBreak ==
    /\ pc = "drain"
    /\ ~GetTask(task_queue).available
    /\ pc' = "done"
    /\ UNCHANGED <<task_queue, result_queue, error_queue, models, inits, faces,
                   file, clock, enqueued, executed, discarded>>
    /\ UNCHANGED <<galleryHist, ctx>>

Next ==
    \/ Put
    \/ RunContinue
    \/ RunBreak
    \/ RunExecute
    \/ RunRaise
    \/ DrainDiscard
    \/ DrainBreak

Spec == Init /\ [][Next]_vars

---------------------------------------------------------------------------
(* SpecGallery: one FaceDatabase, used by its owner step by step, and       *)
(* another process that constructs a FaceDatabase on the same path (a       *)
(* reader, or the worker started again).  store() is three steps, because   *)
(* the file is visible to the other process between them: open("wb")        *)
(* truncates, the buffered writer flushes, close writes the rest.           *)

\* sizes of the batches of add calls
BatchSizes == {1, 2, 500}

\* faulty variant of AddTimes: each call puts its entry at the head
AddTimesInFront(fs, now, k) ==
    [i \in 1..k |-> Add(<<>>, now + k - i, (now + k - i) % 3, now + k - i)[1]] \o fs

\* k calls of add in a row, the clock ticking once per call: the i-th call
\* appends the entry add makes at time now + i - 1
AddTimes(fs, now, k) ==
    fs \o [i \in 1..k |-> Add(<<>>, now + i - 1, (now + i - 1) % 3, now + i - 1)[1]]

\* lengths at which the writer may have flushed a stream of n tokens: after
\* the first token, before the last
FlushPoints(n) == {1, n - 1}

\* the owner calls add k times
GAddBatch ==
    /\ store_pc = "idle"
    /\ batches < MaxBatches
    /\ \E k \in BatchSizes :
          /\ faces' = AddTimes(faces, clock, k)
          /\ inserted' = inserted \o SubSeq(AddTimes(faces, clock, k), Len(faces) + 1,
                                            Len(faces) + k)
          /\ clock' = clock + k
    /\ batches' = batches + 1
    /\ dirty' = TRUE
    /\ reader' = NotRead
    /\ UNCHANGED <<file, store_pc, persisted, prev_file, clean_store>>
    /\ UNCHANGED <<workerVars, ctx>>

\* store(): the trim, and open("wb"), which creates or truncates the file
GStoreOpen ==
    /\ store_pc = "idle"
    /\ faces' = KeepNewest(faces)
    /\ file' = FileOf(<<>>)
    /\ store_pc' = "dumping"
    /\ prev_file' = file
    /\ clean_store' = (persisted.done /\ ~dirty)
    /\ reader' = NotRead
    /\ UNCHANGED <<clock, persisted, dirty, batches, inserted>>
    /\ UNCHANGED <<workerVars, ctx>>

\* store(): pickle.dump has written part of the stream to the file
GStoreFlush ==
    /\ store_pc = "dumping"
    /\ \E n \in FlushPoints(Len(Dumps(faces))) :
          /\ Len(file.bytes) < n
          /\ n < Len(Dumps(faces))
          /\ file' = FileOf(Take(Dumps(faces), n))
    /\ reader' = NotRead
    /\ UNCHANGED <<faces, clock, store_pc, persisted, prev_file, clean_store,
                   dirty, batches, inserted>>
    /\ UNCHANGED <<workerVars, ctx>>

\* store(): the with block ends, the whole stream is in the file
GStoreClose ==
    /\ store_pc = "dumping"
    /\ file' = FileOf(Dumps(faces))
    /\ store_pc' = "idle"
    /\ persisted' = [done |-> TRUE, faces |-> faces]
    /\ dirty' = FALSE
    /\ reader' = NotRead
    /\ UNCHANGED <<faces, clock, prev_file, clean_store, batches, inserted>>
    /\ UNCHANGED <<workerVars, ctx>>

\* the owner's process ends where it is (killed, power lost); the file
\* stays as it is
GCrash ==
    /\ store_pc \in {"idle", "dumping"}
    /\ store_pc' = "crashed"
    /\ UNCHANGED <<faces, file, clock, persisted, prev_file, clean_store, dirty,
                   batches, inserted, reader>>
    /\ UNCHANGED <<workerVars, ctx>>

\* another process runs FaceDatabase(path)
GConstruct ==
    /\ reader' = [read |-> TRUE, ok |-> Construct(file).ok,
                  faces |-> Construct(file).faces]
    /\ UNCHANGED <<faces, file, clock, store_pc, persisted, prev_file,
                   clean_store, dirty, batches, inserted>>
    /\ UNCHANGED <<workerVars, ctx>>

NextGallery ==
    \/ GAddBatch
    \/ GStoreOpen
    \/ GStoreFlush
    \/ GStoreClose
    \/ GCrash
    \/ GConstruct

SpecGallery == Init /\ [][NextGallery]_vars

---------------------------------------------------------------------------
(* Properties of the worker (Spec) *)

\* the tasks execute_task was called with, in call order
ExecutedTasks == [i \in 1..Len(executed) |-> executed[i].task]

\* the place of the first Shutdown among the tasks put, or one past the end
FirstShutdown ==
    IF \E i \in 1..Len(enqueued) : enqueued[i].kind = "Shutdown"
    THEN CHOOSE i \in 1..Len(enqueued) :
            /\ enqueued[i].kind = "Shutdown"
            /\ \A j \in 1..(i - 1) : enqueued[j].kind # "Shutdown"
    ELSE Len(enqueued) + 1

\* the tasks put ahead of the first Shutdown
AheadOfShutdown == SubSeq(enqueued, 1, FirstShutdown - 1)

\* the call of execute_task for the task with this id, 0 if there is none
ExecIndex(id) ==
    IF \E i \in 1..Len(executed) : executed[i].task.id = id
    THEN CHOOSE i \in 1..Len(executed) : executed[i].task.id = id
    ELSE 0

\* C1: the tasks passed to execute_task are, in order and once each, the
\* tasks put ahead of the first Shutdown; when the worker has left the main
\* loop through Shutdown, all of them have been executed.
C1_ShutdownAfterTasksAhead ==
    /\ IsPrefix(ExecutedTasks, AheadOfShutdown)
    /\ pc \in {"drain", "done"} => ExecutedTasks = AheadOfShutdown

C1_Witness ==
    /\ pc = "done"
    /\ Len(executed) >= 2
    /\ \A i \in 1..Len(executed) : ~executed[i].raised

\* C2: the results on the result channel are in the order in which their
\* tasks were executed, each is the value its task returned, and no task
\* has two results.
C2_ResultsInExecutionOrder ==
    /\ \A i \in 1..Len(result_queue) :
          /\ ExecIndex(result_queue[i].task) > 0
          /\ executed[ExecIndex(result_queue[i].task)].result = result_queue[i]
    /\ \A i, j \in 1..Len(result_queue) :
          i < j => ExecIndex(result_queue[i].task) < ExecIndex(result_queue[j].task)

C2_Witness ==
    /\ Len(result_queue) >= 2
    /\ result_queue[1].kind # result_queue[2].kind

\* C3 (state part): Shutdown is never passed to execute_task, and a task the
\* drain loop got was never executed and has no result.
C3_DiscardedNeverExecuted ==
    /\ \A i \in 1..Len(executed) : executed[i].task.kind # "Shutdown"
    /\ \A i \in 1..Len(discarded) :
          /\ ExecIndex(discarded[i].id) = 0
          /\ \A j \in 1..Len(result_queue) : result_queue[j].task # discarded[i].id

\* C3 (step part): once Shutdown was got, no step executes a task, puts a
\* result or an error, or changes the gallery or its file.
C3_DrainChangesNothing ==
    pc \in {"drain", "done"} =>
        /\ executed' = executed
        /\ result_queue' = result_queue
        /\ error_queue' = error_queue
        /\ faces' = faces
        /\ file' = file

\* C3: a task got after Shutdown is discarded: never executed, no result,
\* no change of the gallery; Shutdown itself is never executed.
C3_TasksAfterShutdownDiscarded ==
    []C3_DiscardedNeverExecuted /\ [][C3_DrainChangesNothing]_vars

C3_Witness ==
    /\ pc = "done"
    /\ Len(discarded) >= 1
    /\ Len(executed) >= 1
    /\ discarded[1].kind = "RegisterFaces"
    /\ discarded[1].rr.faces # <<>>

\* C4 as claimed: whenever the worker has ended through the drain loop, the
\* task channel is empty.
C4_EmptyAfterDrain == pc = "done" => task_queue = <<>>

\* C4 as amended: the step that leaves the drain loop finds the task channel
\* empty, every task put before it having been got (executed, discarded, or
\* the Shutdown got by the main loop); only tasks put after that step stay.
C4_EmptyWhenDrainEnds ==
    [][(pc = "drain" /\ pc' = "done") =>
          /\ task_queue' = <<>>
          /\ Len(executed) + 1 + Len(discarded) = Len(enqueued)]_vars

C4_Witness ==
    /\ pc = "done"
    /\ Len(discarded) >= 1
    /\ task_queue = <<>>

\* C5: a call of execute_task that raises is the last call, it puts the one
\* Error of the run and no result; without such a call there is no Error.
C5_RaiseEndsWorker ==
    /\ Len(error_queue) = (IF pc = "failed" THEN 1 ELSE 0)
    /\ pc = "failed" <=> (executed # <<>> /\ executed[Len(executed)].raised)
    /\ \A i \in 1..Len(executed) :
          executed[i].raised =>
              /\ i = Len(executed)
              /\ \A j \in 1..Len(result_queue) :
                    result_queue[j].task # executed[i].task.id

C5_Witness ==
    /\ pc = "failed"
    /\ Len(result_queue) >= 1
    /\ task_queue # <<>>
    /\ Len(enqueued) = MaxTasks

\* C9: RegisterFaces whose recognition result is None, has faces None or has
\* zero faces returns RegistrationResult(persons=[]), does not raise and
\* leaves the gallery as it was.
C9_EmptyRegistrationIsNoop ==
    \A i \in 1..Len(executed) :
        (/\ executed[i].task.kind = "RegisterFaces"
         /\ \/ ~executed[i].task.rr.present
            \/ ~executed[i].task.rr.has_faces
            \/ executed[i].task.rr.faces = <<>>) =>
            /\ ~executed[i].raised
            /\ executed[i].result = Result("RegistrationResult", executed[i].task.id, <<>>)
            /\ executed[i].after = executed[i].before
            /\ i = Len(executed) => (pc # "failed" /\ error_queue = <<>>)

C9_Witness ==
    \E i \in 1..Len(executed) :
        /\ executed[i].task.kind = "RegisterFaces"
        /\ executed[i].task.rr.present
        /\ executed[i].task.rr.has_faces
        /\ executed[i].task.rr.faces = <<>>
        /\ executed[i].before # <<>>
        /\ \E j \in 1..Len(result_queue) : result_queue[j] = executed[i].result

\* C10: RecognizeFaces on an image without faces invokes detection only,
\* returns RecognitionResult with no faces, which is put on the result
\* channel; it raises nothing, puts no Error, and the worker goes on.
C10_NoFacesIsAResult ==
    \A i \in 1..Len(executed) :
        (/\ executed[i].task.kind = "RecognizeFaces"
         /\ executed[i].task.image.boxes = <<>>) =>
            /\ ~executed[i].raised
            /\ executed[i].stages = <<"detect">>
            /\ executed[i].result = Result("RecognitionResult", executed[i].task.id, <<>>)
            /\ \E j \in 1..Len(result_queue) : result_queue[j] = executed[i].result
            /\ executed[i].after = executed[i].before
            /\ i = Len(executed) => (pc # "failed" /\ error_queue = <<>>)

C10_Witness ==
    \E i \in 1..Len(executed) :
        /\ executed[i].task.kind = "RecognizeFaces"
        /\ executed[i].task.image.boxes = <<>>
        /\ i < Len(executed)
        /\ result_queue # <<>>

---------------------------------------------------------------------------
(* Properties of the gallery (SpecGallery) *)

\* a store of this instance has finished and nothing was added since
AtRest == store_pc = "idle" /\ persisted.done /\ ~dirty

\* C6: after a finished store the in-memory sequence holds min(n, 1000)
\* entries, the newest of the n ever inserted, in insertion order, and a
\* FaceDatabase constructed on the file then holds the same.
C6_StoreKeepsNewest ==
    AtRest =>
        /\ Len(faces) = Min(Len(inserted), MaxFaces)
        /\ Len(faces) <= MaxFaces
        /\ \A i \in 1..Len(faces) :
              faces[i] = inserted[Len(inserted) - Len(faces) + i]
        /\ reader.read =>
              /\ reader.ok
              /\ Len(reader.faces) = Min(Len(inserted), MaxFaces)
              /\ \A i \in 1..Len(reader.faces) :
                    reader.faces[i] = inserted[Len(inserted) - Len(reader.faces) + i]

C6_Witness ==
    /\ AtRest
    /\ reader.read
    /\ Len(inserted) > MaxFaces
    /\ Len(faces) = MaxFaces

\* C7: a FaceDatabase constructed on the file after a finished store equals
\* the storing instance's sequence, and a store that began with nothing
\* added since the store before leaves the file as it was.
C7_StoreReloadIdentity ==
    /\ (AtRest /\ reader.read) => (reader.ok /\ reader.faces = faces)
    /\ (store_pc = "idle" /\ persisted.done /\ clean_store) => file = prev_file

C7_Witness ==
    /\ AtRest
    /\ clean_store
    /\ reader.read
    /\ faces # <<>>
    /\ Len(faces) < MaxFaces

\* C8 as claimed: whatever another process constructs from the file, at any
\* time, is the whole sequence last persisted or the whole sequence being
\* persisted, never an error.
C8_StoreIsAtomic ==
    reader.read => (reader.ok /\ reader.faces \in {persisted.faces, faces})

---------------------------------------------------------------------------
(* Further properties of the worker (Spec) *)

\* the boxes of an image for which find_landmarks works
GoodBoxes(image) == {image.boxes[j] : j \in 1..Len(image.boxes)} \ image.bad

\* C11 as claimed: when find_landmarks fails for one face of a frame that has
\* other faces, RecognizeFaces still returns a result in which the other
\* faces have landmarks and crop, and the worker goes on.
C11_LandmarkFailureIsolated ==
    \A i \in 1..Len(executed) :
        (/\ executed[i].task.kind = "RecognizeFaces"
         /\ executed[i].task.image.bad # {}
         /\ GoodBoxes(executed[i].task.image) # {}) =>
            /\ ~executed[i].raised
            /\ executed[i].result.kind = "RecognitionResult"
            /\ \A b \in GoodBoxes(executed[i].task.image) :
                  \E j \in 1..Len(executed[i].result.items) :
                      /\ executed[i].result.items[j].bounding_box = b
                      /\ executed[i].result.items[j].landmarks = FindLandmarks(b)
                      /\ executed[i].result.items[j].crop = CropImage(FindLandmarks(b))
            /\ i = Len(executed) => pc # "failed"

---------------------------------------------------------------------------
(* SpecFair: the worker is a running process of its own; the scheduler does *)
(* not hold it forever while it has a step to take.                         *)

\* a step of run() that changes the state
WorkerStep == RunBreak \/ RunExecute \/ RunRaise \/ DrainDiscard \/ DrainBreak

\* the tasks the producer of SpecFair puts: whether the worker ends depends
\* on the kind of a task (Shutdown or not) and on whether it raises
FairTasks ==
    {Task(kd, NoImage, NoRecResult) :
        kd \in {"BackupFaceDatabase", "UnregisterMostRecentFaces",
                "Unknown", "Shutdown"}}

\* a producer puts a task; it stops after MaxTasks tasks
PutFair ==
    /\ Len(enqueued) < MaxTasks
    /\ \E t \in FairTasks :
          /\ task_queue' = Append(task_queue, [t EXCEPT !.id = Len(enqueued) + 1])
          /\ enqueued' = Append(enqueued, [t EXCEPT !.id = Len(enqueued) + 1])
    /\ UNCHANGED <<result_queue, error_queue, pc, models, inits, faces, file,
                   clock, executed, discarded>>
    /\ UNCHANGED <<galleryHist, ctx>>

NextFair ==
    \/ PutFair
    \/ RunContinue
    \/ RunBreak
    \/ RunExecute
    \/ RunRaise
    \/ DrainDiscard
    \/ DrainBreak

SpecFair == Init /\ [][NextFair]_vars /\ WF_vars(WorkerStep)

\* a Shutdown has been put on the task channel
ShutdownPut == \E i \in 1..Len(enqueued) : enqueued[i].kind = "Shutdown"

\* C12: once a Shutdown is on the task channel, and the producers put at
\* most MaxTasks tasks, the worker either has a call of execute_task raise
\* or gets the Shutdown, empties the channel and ends.
C12_ShutdownTerminates ==
    ShutdownPut ~> (pc = "done" \/ \E i \in 1..Len(executed) : executed[i].raised)

C12_Witness ==
    /\ pc = "done"
    /\ Len(enqueued) = MaxTasks
    /\ enqueued[1].kind = "Shutdown"
    /\ Len(discarded) = MaxTasks - 1

---------------------------------------------------------------------------
(* Further properties of the worker (Spec), continued *)

\* the worker has polled the task channel in this step and acted on the answer
Polled == executed' # executed \/ discarded' # discarded \/ pc' # pc

\* the task the worker got in this step
GotTask ==
    IF executed' # executed THEN executed'[Len(executed')].task
    ELSE IF discarded' # discarded THEN discarded'[Len(discarded')]
    ELSE Task("Shutdown", NoImage, NoRecResult)

\* a poll of the empty channel returns at once: the loop has a step to take
C13_NeverWaits ==
    /\ (pc = "main" /\ task_queue = <<>>) => ENABLED RunContinue
    /\ (pc = "drain" /\ task_queue = <<>>) => ENABLED DrainBreak

\* a poll changes the channel by the one task it returns, or not at all
C13_PollTakesHeadOrNothing ==
    Polled =>
        \/ /\ task_queue = <<>>
           /\ task_queue' = task_queue
           /\ executed' = executed
           /\ discarded' = discarded
        \/ /\ task_queue # <<>>
           /\ task_queue' = Tail(task_queue)
           /\ [GotTask EXCEPT !.id = 0] = [Head(task_queue) EXCEPT !.id = 0]
           /\ GotTask.kind = Head(task_queue).kind
           /\ Len(executed') + Len(discarded') <= Len(executed) + Len(discarded) + 1

\* C13: get_task() never waits: on the empty channel it says so and leaves
\* the channel as it is; otherwise it returns the task at the head and
\* removes that one task and no other.
C13_GetTaskPolls == []C13_NeverWaits /\ [][C13_PollTakesHeadOrNothing]_vars

C13_Witness ==
    /\ pc = "done"
    /\ Len(executed) >= 1
    /\ Len(discarded) >= 1

\* a worker that has failed has dropped nothing: what waits on the channel
\* is all that was put after the tasks it executed
C14_NothingDrained ==
    pc = "failed" =>
        /\ discarded = <<>>
        /\ task_queue = SubSeq(enqueued, Len(executed) + 1, Len(enqueued))
        /\ executed[Len(executed)].raised

\* the step in which execute_task raises takes the failing task only, and a
\* failed worker takes no task, executes nothing and puts nothing
C14_FailedTakesNothing ==
    /\ (pc = "main" /\ pc' = "failed") =>
          /\ task_queue' = Tail(task_queue)
          /\ discarded' = discarded
    /\ pc = "failed" =>
          /\ pc' = "failed"
          /\ IsPrefix(task_queue, task_queue')
          /\ executed' = executed
          /\ discarded' = discarded
          /\ result_queue' = result_queue
          /\ error_queue' = error_queue

\* C14: when execute_task raises the worker ends at once, without the drain
\* loop: it takes no further task, and the tasks on the channel at that
\* moment stay there.
C14_RaiseSkipsDrain == []C14_NothingDrained /\ [][C14_FailedTakesNothing]_vars

C14_Witness ==
    /\ pc = "failed"
    /\ Len(task_queue) >= 2
    /\ \E i \in 1..Len(task_queue) : task_queue[i].kind = "Shutdown"

\* the kinds of task execute_task has a branch for
HandledKinds ==
    {"RecognizeFaces", "BackupFaceDatabase", "RegisterFaces",
     "UnregisterMostRecentFaces"}

\* a task of another kind was executed: the call raised, returned nothing
\* and left the gallery as it was; it was the worker's last, and the error
\* channel holds the one Error
C15_UnknownRaised ==
    \A i \in 1..Len(executed) :
        executed[i].task.kind \notin HandledKinds =>
            /\ executed[i].raised
            /\ executed[i].result = None
            /\ executed[i].after = executed[i].before
            /\ i = Len(executed)
            /\ pc = "failed"
            /\ error_queue = <<Error>>

\* the worker acts on a task of another kind at the head of the channel:
\* it fails, puts Error and no result, and changes neither gallery nor file
C15_UnknownStep ==
    (/\ pc = "main"
     /\ task_queue # <<>>
     /\ Head(task_queue).kind \notin HandledKinds \cup {"Shutdown"}
     /\ Polled) =>
        /\ pc' = "failed"
        /\ task_queue' = Tail(task_queue)
        /\ executed' = Append(executed, executed'[Len(executed')])
        /\ executed'[Len(executed')].task = Head(task_queue)
        /\ error_queue' = Append(error_queue, Error)
        /\ result_queue' = result_queue
        /\ faces' = faces
        /\ file' = file

\* C15: a task that is none of the four handled kinds, and not Shutdown,
\* makes execute_task raise: Error goes on the error channel, no result is
\* put, the gallery is unchanged and the worker ends; the task is never
\* passed over.
C15_UnknownTaskFailsFast == []C15_UnknownRaised /\ [][C15_UnknownStep]_vars

C15_Witness ==
    /\ pc = "failed"
    /\ executed[Len(executed)].task.kind = "Unknown"
    /\ Len(executed) >= 2
    /\ faces # <<>>
    /\ result_queue # <<>>

\* C16: the model stack is unset until the first call of execute_task,
\* is built by that call whatever the kind of its task and whether or not
\* it raises, and init_model_stack is called at most once however many
\* tasks are executed; a worker that gets Shutdown only never builds it.
C16_LazyModelInit ==
    /\ (models = "None") <=> (executed = <<>>)
    /\ inits = (IF executed = <<>> THEN 0 ELSE 1)
    /\ \A i \in 1..Len(executed) : executed[i].init <=> (i = 1)
    /\ (pc \in {"drain", "done"} /\ executed = <<>>) => (models = "None" /\ inits = 0)

C16_Witness ==
    /\ Len(executed) = MaxTasks
    /\ executed[1].task.kind = "BackupFaceDatabase"
    /\ executed[MaxTasks].raised
    /\ models = "stack"
    /\ inits = 1

\* a worker that got Shutdown as its first task has ended without a stack
C16_WitnessShutdownOnly ==
    /\ pc = "done"
    /\ executed = <<>>
    /\ discarded # <<>>
    /\ models = "None"

\* the calls of execute_task that ran the matching stage
Matched ==
    {i \in 1..Len(executed) :
        /\ executed[i].task.kind = "RecognizeFaces"
        /\ ~executed[i].raised
        /\ executed[i].result.items # <<>>}

\* the match list ms of a face with embedding f against gallery g
RankedAndTrimmed(ms, f, g) ==
    /\ Len(ms) = Min(NumMatches, Len(g))
    /\ \A a \in 1..Len(ms) :
          /\ \E p \in 1..Len(g) : ms[a].face = g[p]
          /\ ms[a].score = Score(f, ms[a].face)
    /\ \A a \in 1..(Len(ms) - 1) : ms[a].score >= ms[a + 1].score
    /\ \A p \in 1..Len(g) :
          (\A a \in 1..Len(ms) : ms[a].face # g[p]) =>
              \A a \in 1..Len(ms) : ms[a].score >= Score(f, g[p])

---------------------------------------------------------------------------
(* Further properties of the gallery (SpecGallery) *)

\* a step of store(): open, which also trims, or a write of the dump
StoreStep == (store_pc = "idle" /\ store_pc' = "dumping") \/ store_pc = "dumping"

\* the file changes in steps of store() only
C18_FileChangesInStoreOnly == file' # file => StoreStep

\* calls of add (as many as the clock ticked) leave the file and the entries
\* there were, and put one entry each at the tail, stamped with the time of
\* the call
C18_AddAppendsOne ==
    batches' # batches =>
        /\ file' = file
        /\ IsPrefix(faces, faces')
        /\ Len(faces') = Len(faces) + (clock' - clock)
        /\ \A i \in (Len(faces) + 1)..Len(faces') :
              faces'[i].timestamp = clock + (i - Len(faces) - 1)

\* C18: add puts exactly one StoredFace at the tail of the sequence in
\* memory and leaves the earlier entries and the file as they were; the
\* file changes during store() only.
C18_OnlyStoreTouchesFile ==
    [][C18_FileChangesInStoreOnly /\ C18_AddAppendsOne]_vars

\* between two stores the sequence in memory is longer than MaxFaces and is
\* not what the file holds
C18_Witness ==
    /\ store_pc = "idle"
    /\ persisted.done
    /\ Len(faces) > MaxFaces
    /\ file.exists
    /\ Construct(file).ok
    /\ Construct(file).faces # faces
    /\ IsPrefix(Construct(file).faces, faces)

\* the file holds the whole dump of the gallery last stored (or found at
\* the start)
FileIsLastDump == file.exists /\ file.bytes = Dumps(persisted.faces)

\* what FaceDatabase(path) gave for the file as it is now
C19_LoadOutcome ==
    reader.read =>
        /\ ~file.exists => (reader.ok /\ reader.faces = <<>>)
        /\ FileIsLastDump => (reader.ok /\ reader.faces = persisted.faces)
        /\ (file.exists /\ ~FileIsLastDump) => ~reader.ok

\* the construction writes nothing: no file is made where there was none
C19_LoadLeavesFile == (reader'.read /\ reader' # reader) => file' = file

\* C19: FaceDatabase(path) starts empty, and makes no file, when there is
\* none; has the entries of a well-formed file in their order; and raises
\* when the file is there and cannot be read, as after a store cut short.
C19_LoadAtConstruction == []C19_LoadOutcome /\ [][C19_LoadLeavesFile]_vars

\* the owner ended inside store(), part of the dump is in the file, and the
\* next construction failed
C19_Witness ==
    /\ reader.read
    /\ ~reader.ok
    /\ store_pc = "crashed"
    /\ Len(file.bytes) >= 1
    /\ Len(persisted.faces) >= 1

\* the other two cases of the construction
C19_WitnessAbsent == reader.read /\ ~file.exists /\ reader.ok

C19_WitnessWellFormed ==
    reader.read /\ persisted.done /\ reader.ok /\ Len(reader.faces) = MaxFaces

---------------------------------------------------------------------------
(* SpecContext: the worker made, started and stopped by init_recognition.  *)
(* ctx.pc is where the caller is: "call" (init_recognition entered),       *)
(* "constructed", "body" (inside the with block), "returned" or "raised"   *)
(* (the with block left), "start_failed", "construct_failed".              *)

\* the tasks the caller puts: the Shutdown is left to init_recognition
BodyTasks == {t \in FairTasks : t.kind # "Shutdown"}

\* the file init_recognition may find: as for Spec, or the empty file an
\* interrupted store left
ContextFiles == InitFiles \cup {FileOf(<<>>)}

InitContext ==
    /\ task_queue = <<>>
    /\ result_queue = <<>>
    /\ error_queue = <<>>
    /\ pc = "new"
    /\ models = "None"
    /\ inits = 0
    /\ file \in ContextFiles
    /\ faces = Construct(file).faces
    /\ clock = 1
    /\ enqueued = <<>>
    /\ executed = <<>>
    /\ discarded = <<>>
    /\ store_pc = "idle"
    /\ persisted = [done |-> FALSE, faces |-> Construct(file).faces]
    /\ prev_file = Absent
    /\ clean_store = FALSE
    /\ dirty = FALSE
    /\ batches = 0
    /\ inserted = Construct(file).faces
    /\ reader = NotRead
    /\ ctx = [pc |-> "call", shutdowns |-> 0, body_puts |-> 0]

\* work_queue.put(t) by the caller or by init_recognition
CtxPut(t) ==
    /\ task_queue' = Append(task_queue, [t EXCEPT !.id = Len(enqueued) + 1])
    /\ enqueued' = Append(enqueued, [t EXCEPT !.id = Len(enqueued) + 1])

\* finally: work_queue.put(Shutdown())
CtxFinally(exit) ==
    /\ CtxPut(Task("Shutdown", NoImage, NoRecResult))
    /\ ctx' = [ctx EXCEPT !.pc = exit, !.shutdowns = @ + 1]

\* recognition = RecognitionProcess(...): the gallery file is read
CtxConstruct ==
    /\ ctx.pc = "call"
    /\ Construct(file).ok
    /\ ctx' = [ctx EXCEPT !.pc = "constructed"]
    /\ UNCHANGED <<workerVars, faces, file, clock, galleryHist>>

\* RecognitionProcess(...) raises, before the try: nothing was started and
\* the with block is not entered
CtxConstructFails ==
    /\ ctx.pc = "call"
    /\ ~Construct(file).ok
    /\ ctx' = [ctx EXCEPT !.pc = "construct_failed"]
    /\ UNCHANGED <<workerVars, faces, file, clock, galleryHist>>

\* recognition.start(), then yield: run() begins, the with block is entered
CtxStart ==
    /\ ctx.pc = "constructed"
    /\ pc' = "main"
    /\ ctx' = [ctx EXCEPT !.pc = "body"]
    /\ UNCHANGED <<task_queue, result_queue, error_queue, models, inits,
                   enqueued, executed, discarded>>
    /\ UNCHANGED <<faces, file, clock, galleryHist>>

\* recognition.start() raises: the finally clause runs, no worker runs
CtxStartFails ==
    /\ ctx.pc = "constructed"
    /\ CtxFinally("start_failed")
    /\ UNCHANGED <<result_queue, error_queue, pc, models, inits, executed,
                   discarded>>
    /\ UNCHANGED <<faces, file, clock, galleryHist>>

\* inside the with block the caller puts a task
CtxBodyPut ==
    /\ ctx.pc = "body"
    /\ ctx.body_puts < MaxTasks - 1
    /\ \E t \in BodyTasks : CtxPut(t)
    /\ ctx' = [ctx EXCEPT !.body_puts = @ + 1]
    /\ UNCHANGED <<result_queue, error_queue, pc, models, inits, executed,
                   discarded>>
    /\ UNCHANGED <<faces, file, clock, galleryHist>>

\* the with block ends: the generator resumes after yield, finally runs
CtxBodyReturns ==
    /\ ctx.pc = "body"
    /\ CtxFinally("returned")
    /\ UNCHANGED <<result_queue, error_queue, pc, models, inits, executed,
                   discarded>>
    /\ UNCHANGED <<faces, file, clock, galleryHist>>

\* faulty variant of CtxBodyRaises: the put after yield is not in a finally
\* clause, the exception passes it by
CtxBodyRaisesNoFinally ==
    /\ ctx.pc = "body"
    /\ ctx' = [ctx EXCEPT !.pc = "raised"]
    /\ UNCHANGED <<workerVars, faces, file, clock, galleryHist>>

\* the with block raises: the exception is thrown in at yield, finally runs
CtxBodyRaises ==
    /\ ctx.pc = "body"
    /\ CtxFinally("raised")
    /\ UNCHANGED <<result_queue, error_queue, pc, models, inits, executed,
                   discarded>>
    /\ UNCHANGED <<faces, file, clock, galleryHist>>

\* after the with block the caller, who owns the channel, puts a task
CtxLatePut ==
    /\ ctx.pc \in {"returned", "raised"}
    /\ Len(enqueued) < MaxTasks
    /\ \E t \in BodyTasks : CtxPut(t)
    /\ UNCHANGED <<result_queue, error_queue, pc, models, inits, executed,
                   discarded>>
    /\ UNCHANGED <<faces, file, clock, galleryHist, ctx>>

NextContext ==
    \/ CtxConstruct
    \/ CtxConstructFails
    \/ CtxStart
    \/ CtxStartFails
    \/ CtxBodyPut
    \/ CtxBodyReturns
    \/ CtxBodyRaises
    \/ CtxLatePut
    \/ RunContinue
    \/ RunBreak
    \/ RunExecute
    \/ RunRaise
    \/ DrainDiscard
    \/ DrainBreak

SpecContext == InitContext /\ [][NextContext]_vars /\ WF_vars(WorkerStep)

\* the places of the Shutdowns among the tasks put
ShutdownPlaces == {i \in 1..Len(enqueued) : enqueued[i].kind = "Shutdown"}

\* the with block was entered or start() was tried, and the generator ended
Exited == ctx.pc \in {"returned", "raised", "start_failed"}

\* no Shutdown before the exit, one after it, put behind every task of the
\* with block; a worker that got it has executed all of them
C20_OneShutdownAtExit ==
    /\ Cardinality(ShutdownPlaces) = ctx.shutdowns
    /\ ctx.shutdowns = (IF Exited THEN 1 ELSE 0)
    /\ Exited => ShutdownPlaces = {ctx.body_puts + 1}
    /\ ctx.pc = "start_failed" => (pc = "new" /\ ctx.body_puts = 0)
    /\ pc \in {"drain", "done"} => (Exited /\ Len(executed) = ctx.body_puts)

\* C20: init_recognition puts exactly one Shutdown on the task channel
\* when the with block is left, by return or by exception, or when start()
\* fails, and none before; so a worker started through it comes to the
\* Shutdown behind all the tasks the caller put inside the with block, and
\* ends, unless a task raises first.
C20_ContextPutsOneShutdown ==
    /\ []C20_OneShutdownAtExit
    /\ (ctx.pc \in {"returned", "raised"}) ~> (pc \in {"done", "failed"})

\* the with block put tasks and raised; the worker executed them, got the
\* Shutdown and ended
C20_Witness ==
    /\ ctx.pc = "raised"
    /\ ctx.body_puts = MaxTasks - 1
    /\ pc = "done"
    /\ Len(executed) = MaxTasks - 1

\* start() failed: the Shutdown is on the channel and no worker runs
C20_WitnessStartFails == ctx.pc = "start_failed" /\ Len(task_queue) = 1

=============================================================================
